---- MODULE Spec2Model ----
(***************************************************************************)
(* KWayland::Server::KeyboardInterface (src/src/server/                    *)
(* keyboard_interface.cpp): one keyboard binding, the wl_keyboard wire     *)
(* objects the transport (libwayland) holds for it, the surfaces that can  *)
(* take keyboard focus and the seat whose state the binding reads.         *)
(*                                                                         *)
(* The transport and Qt are modelled at the calls the source makes:        *)
(*   wl_resource_create      a fresh live wire object, or null             *)
(*   wl_resource_destroy     runs the destroy callback given to            *)
(*                           wl_resource_set_implementation, then frees    *)
(*   client disconnect       wl_resource_destroy of every live object      *)
(*   a request               dispatched to the vtable of a live object     *)
(*   QObject::connect        a connection that ends on disconnect() or     *)
(*                           when its sender or its receiver is destroyed  *)
(*   Q_ASSERT                aborts when assertions are compiled in, and   *)
(*                           is empty otherwise (QT_NO_DEBUG)              *)
(* Passing a null wl_resource to wl_keyboard_send_* and writing through    *)
(* the user data of a wire object whose binding was deleted are undefined: *)
(* both the crash and the silent return are outcomes of the model.  A      *)
(* behaviour is followed up to the first undefined operation and up to the *)
(* first call that runs past a compiled-out Q_ASSERT whose condition is    *)
(* false: the state that operation leaves is part of the model, what the   *)
(* process does after it is not.                                           *)
(***************************************************************************)
EXTENDS Integers, Sequences, FiniteSets, TLC

\* ---- bounds of the model ------------------------------------------------
MaxHandles == 2           \* wire objects the transport will allocate
MaxEvents == 4            \* operations that emit stop once the log is this long
MaxOom == 1               \* allocation failures the transport reports
MaxReleases == 1          \* release requests a client sends on one object

\* ---- values --------------------------------------------------------------
NULL == 0                                   \* nullptr: no handle, no surface
Surfaces == {1, 2}                          \* the surfaces that exist at start
Handles == 1..MaxHandles
Keys == {30}                                \* key code arguments
FORMAT_NO_KEYMAP == 0                       \* WL_KEYBOARD_KEYMAP_FORMAT_NO_KEYMAP
FORMAT_XKB_V1 == 1                          \* WL_KEYBOARD_KEYMAP_FORMAT_XKB_V1
KEY_STATE_RELEASED == 0                     \* WL_KEYBOARD_KEY_STATE_RELEASED
KEY_STATE_PRESSED == 1                      \* WL_KEYBOARD_KEY_STATE_PRESSED
NullFd == 9                                 \* what open("/dev/null") returns

\* The seat's state as its getters report it (an external collaborator):
\* before it has a keymap, with two keys held, and after, with none held.
SeatBefore ==
  [compat |-> FALSE, fd |-> 4, size |-> 512, pressed |-> <<30, 31>>,
   depressed |-> 1, latched |-> 2, locked |-> 4, group |-> 3,
   modSerial |-> 5, timestamp |-> 100]
SeatAfter ==
  [compat |-> TRUE, fd |-> 3, size |-> 1024, pressed |-> <<>>,
   depressed |-> 8, latched |-> 16, locked |-> 32, group |-> 7,
   modSerial |-> 6, timestamp |-> 200]
SeatStates == {SeatBefore, SeatAfter}

\* Arguments of updateModifiers: depressed, latched, locked, group.
ModifierArgs == { <<1, 2, 4, 3>> }
\* Arguments of setKeymap: fd, size.
KeymapArgs == { <<3, 1024>> }

\* ---- events on the wire ---------------------------------------------------
\* One record shape for every event: h is the handle it was sent on.
Event(kind, h, serial, surf, keys, args) ==
  [kind |-> kind, h |-> h, serial |-> serial, surf |-> surf,
   keys |-> keys, args |-> args]

wl_keyboard_send_keymap(h, format, fd, size) ==
  Event("keymap", h, 0, NULL, <<>>, <<format, fd, size>>)

wl_keyboard_send_leave(h, serial, surf) ==
  Event("leave", h, serial, surf, <<>>, <<>>)

wl_keyboard_send_enter(h, serial, surf, keys) ==
  Event("enter", h, serial, surf, keys, <<>>)

wl_keyboard_send_modifiers(h, serial, depressed, latched, locked, group) ==
  Event("modifiers", h, serial, NULL, <<>>, <<depressed, latched, locked, group>>)

wl_keyboard_send_key(h, serial, time, key, state) ==
  Event("key", h, serial, NULL, <<>>, <<time, key, state>>)

VARIABLES
  debugBuild,        \* Q_ASSERT is compiled in (no QT_NO_DEBUG)
  status,            \* "running"; "aborted": a Q_ASSERT failed; "crashed" and
                     \* "undefined": an undefined operation killed the process,
                     \* or returned; "violated": a call ran past a compiled-out
                     \* Q_ASSERT whose condition was false
  assertLine,        \* source line of the Q_ASSERT that failed, or 0
  alive,             \* the KeyboardInterface exists (not yet deleted)
  d,                 \* KeyboardInterface::Private: resource, focusedSurface,
                     \* destroyConnection
  connections,       \* per surface: live connections of its destroyed()
                     \* signal to this binding
  surfaceAlive,      \* per surface: not yet destroyed
  seat,              \* the seat's state
  wire,              \* per handle: "free", "live" or "destroyed" in the transport
  connected,         \* the client's connection is up
  events,            \* events emitted, in order
  openPlaceholders,  \* /dev/null descriptors opened and not yet closed
  oomPosted,         \* wl_resource_post_no_memory calls
  unbindRuns,        \* per handle: executions of unbind's body
  destroyCalls,      \* per handle: wl_resource_destroy calls by the binding
  nullSend,          \* a null handle was passed to wl_keyboard_send_*
  danglingWrite,     \* unbind wrote through the user data of a deleted binding
  lastCall           \* the last call of an operation of the binding: [op, surface]

vars == <<debugBuild, status, assertLine, alive, d, connections, surfaceAlive,
          seat, wire, connected, events, openPlaceholders, oomPosted,
          unbindRuns, destroyCalls, nullSend, danglingWrite, lastCall>>

\* d.destroyConnection is the surface whose live connection the handle names,
\* NULL when it names none (never connected, disconnected, or ended with its
\* sender): all the program can observe of a QMetaObject::Connection.
NoConnection == NULL

Call(op, surface) == [op |-> op, surface |-> surface]

\* KeyboardInterface::KeyboardInterface and Private::Private.
Init ==
  /\ debugBuild \in BOOLEAN
  /\ status = "running"
  /\ assertLine = 0
  /\ alive = TRUE
  /\ d = [resource |-> NULL, focusedSurface |-> NULL,
          destroyConnection |-> NoConnection]
  /\ connections = [s \in Surfaces |-> 0]
  /\ surfaceAlive = [s \in Surfaces |-> TRUE]
  /\ seat \in SeatStates
  /\ wire = [h \in Handles |-> "free"]
  /\ connected = TRUE
  /\ events = <<>>
  /\ openPlaceholders = 0
  /\ oomPosted = 0
  /\ unbindRuns = [h \in Handles |-> 0]
  /\ destroyCalls = [h \in Handles |-> 0]
  /\ nullSend = FALSE
  /\ danglingWrite = FALSE
  /\ lastCall = Call("new", NULL)

Running == status = "running"

\* The serial argument of a call: the display's next serial.
Serials == {10 + Len(events)}

\* ---- keymap ----------------------------------------------------------------
\* Private::sendKeymap(int fd, quint32 size), past its Q_ASSERT.
sendKeymapFd(h, fd, size) ==
  <<wl_keyboard_send_keymap(h, FORMAT_XKB_V1, fd, size)>>

\* sendKeymap() that never looks at the seat's keymap format.
sendKeymap_alwaysXkb(h) == sendKeymapFd(h, seat.fd, seat.size)

\* Private::sendKeymap(), past its Q_ASSERT: the events it emits on h.
sendKeymap(h) ==
  IF seat.compat
  THEN sendKeymapFd(h, seat.fd, seat.size)
  ELSE <<wl_keyboard_send_keymap(h, FORMAT_NO_KEYMAP, NullFd, 0)>>

\* Private::sendKeymap(): the placeholder descriptors open when it returns,
\* n being the number open when it is called.
sendKeymapDescriptors(n) ==
  IF seat.compat
  THEN n
  ELSE LET opened == n + 1        \* open("/dev/null", O_RDONLY)
       IN  opened - 1             \* close(nullFd)

\* ---- create ----------------------------------------------------------------
\* wl_resource_create: the handle the transport allocates next, or null.
FreeHandles == {h \in Handles : wire[h] = "free"}
NextHandle == CHOOSE h \in FreeHandles : \A g \in FreeHandles : h <= g
wl_resource_create ==
  {NULL} \cup (IF FreeHandles # {} THEN {NextHandle} ELSE {})

\* createInterfae without the return after wl_resource_post_no_memory: the
\* null handle is stored and the keymap is sent on it.
createInterfae_noReturn(k) ==
  /\ Running /\ alive /\ connected
  /\ IF k = NULL
     THEN /\ oomPosted < MaxOom
          /\ oomPosted' = oomPosted + 1
          /\ lastCall' = Call("create_nomem", NULL)
          /\ UNCHANGED wire
     ELSE /\ wire' = [wire EXCEPT ![k] = "live"]
          /\ lastCall' = Call("create", NULL)
          /\ UNCHANGED oomPosted
  /\ Len(events) < MaxEvents
  /\ d' = [d EXCEPT !.resource = k]
  /\ events' = events \o sendKeymap(k)
  /\ openPlaceholders' = sendKeymapDescriptors(openPlaceholders)
  /\ UNCHANGED <<debugBuild, status, assertLine, alive, connections,
                 surfaceAlive, seat, connected, unbindRuns, destroyCalls,
                 nullSend, danglingWrite>>

\* Private::createInterfae, k being what wl_resource_create returned.
createInterfae(k) ==
  /\ Running /\ alive /\ connected
  /\ IF k = NULL
     THEN /\ oomPosted < MaxOom
          /\ oomPosted' = oomPosted + 1     \* wl_resource_post_no_memory
          /\ lastCall' = Call("create_nomem", NULL)
          /\ UNCHANGED <<d, wire, events, openPlaceholders>>
     ELSE /\ Len(events) < MaxEvents
          /\ wire' = [wire EXCEPT ![k] = "live"]
          /\ d' = [d EXCEPT !.resource = k]
          /\ events' = events \o sendKeymap(k)
          /\ openPlaceholders' = sendKeymapDescriptors(openPlaceholders)
          /\ lastCall' = Call("create", NULL)
          /\ UNCHANGED oomPosted
  /\ UNCHANGED <<debugBuild, status, assertLine, alive, connections,
                 surfaceAlive, seat, connected, unbindRuns, destroyCalls,
                 nullSend, danglingWrite>>

\* ---- unbind ------------------------------------------------------------------
\* An unbind that leaves the stored handle as it is.
unbind_keepsHandle(k) == k

\* Private::unbind: the body, on the Private that cast(resource) yields.
unbind(k) == [k EXCEPT !.resource = NULL]

RECURSIVE unbindTimes(_, _)
unbindTimes(k, n) == IF n = 0 THEN k ELSE unbindTimes(unbind(k), n - 1)

\* unbind called with a wire object whose user data is a deleted Private: the
\* write goes to freed memory (undefined behaviour).
DanglingUnbind ==
  /\ danglingWrite' = TRUE
  /\ status' \in {"crashed", "undefined"}
  /\ d' = d

\* Private::releaseCallback: the client's release request on live object h.
\* The wire object is not destroyed: it stays live in the transport.
releaseCallback(h) ==
  /\ Running /\ connected
  /\ wire[h] = "live"
  /\ unbindRuns[h] < MaxReleases     \* on a live object: the releases so far
  /\ unbindRuns' = [unbindRuns EXCEPT ![h] = @ + 1]
  /\ IF alive
     THEN d' = unbind(d) /\ UNCHANGED <<danglingWrite, status>>
     ELSE DanglingUnbind
  /\ UNCHANGED <<debugBuild, assertLine, alive, connections, surfaceAlive, seat,
                 wire, connected, events, openPlaceholders, oomPosted,
                 destroyCalls, nullSend, lastCall>>

\* The client disconnects: the transport destroys every live object of the
\* client, and each destruction runs the object's destroy callback, unbind.
ClientDisconnect ==
  /\ Running /\ connected
  /\ LET live == {h \in Handles : wire[h] = "live"} IN
       /\ connected' = FALSE
       /\ wire' = [h \in Handles |-> IF h \in live THEN "destroyed" ELSE wire[h]]
       /\ unbindRuns' = [h \in Handles |->
                           IF h \in live THEN unbindRuns[h] + 1 ELSE unbindRuns[h]]
       /\ IF live = {}
          THEN UNCHANGED <<d, danglingWrite, status>>
          ELSE IF alive
               THEN d' = unbindTimes(d, Cardinality(live))
                    /\ UNCHANGED <<danglingWrite, status>>
               ELSE DanglingUnbind
  /\ UNCHANGED <<debugBuild, assertLine, alive, connections, surfaceAlive, seat,
                 events, openPlaceholders, oomPosted, destroyCalls, nullSend,
                 lastCall>>

\* ---- destructor ----------------------------------------------------------------
\* A destructor that never calls wl_resource_destroy.
Destructor_keepsWireObject ==
  /\ Running /\ alive
  /\ d' = [d EXCEPT !.destroyConnection = NoConnection]
  /\ alive' = FALSE
  /\ connections' = [s \in Surfaces |-> 0]
  /\ lastCall' = Call("delete", NULL)
  /\ UNCHANGED <<debugBuild, status, assertLine, surfaceAlive, seat, connected,
                 events, openPlaceholders, oomPosted, nullSend, danglingWrite,
                 destroyCalls, wire, unbindRuns>>

\* KeyboardInterface::~KeyboardInterface. wl_resource_destroy runs the destroy
\* callback (unbind) while the Private still exists, then frees the object.
\* ~QObject then ends every connection the binding receives.
Destructor ==
  /\ Running /\ alive
  /\ IF d.resource # NULL
     THEN /\ destroyCalls' = [destroyCalls EXCEPT ![d.resource] = @ + 1]
          /\ wire' = [wire EXCEPT ![d.resource] = "destroyed"]
          /\ unbindRuns' = [unbindRuns EXCEPT ![d.resource] = @ + 1]
          /\ d' = [unbind(d) EXCEPT !.destroyConnection = NoConnection]
     ELSE /\ d' = [d EXCEPT !.destroyConnection = NoConnection]
          /\ UNCHANGED <<destroyCalls, wire, unbindRuns>>
  /\ alive' = FALSE
  /\ connections' = [s \in Surfaces |-> 0]
  /\ lastCall' = Call("delete", NULL)
  /\ UNCHANGED <<debugBuild, status, assertLine, surfaceAlive, seat, connected,
                 events, openPlaceholders, oomPosted, nullSend, danglingWrite>>

\* ---- surfaces ------------------------------------------------------------------
\* A slot that leaves the focus reference as it is.
destroyedLambda_keepsFocus(k) == k

\* The lambda connected to QObject::destroyed in setFocusedSurface.
destroyedLambda(k) == [k EXCEPT !.focusedSurface = NULL]

\* Surface s is destroyed by its owner: each live connection of its destroyed()
\* signal runs its slot, and the connections end with the sender. (Followed
\* while the binding exists: afterwards no connection is left to run.)
SurfaceDestroyed(s) ==
  /\ Running /\ alive
  /\ surfaceAlive[s]
  /\ surfaceAlive' = [surfaceAlive EXCEPT ![s] = FALSE]
  /\ connections' = [connections EXCEPT ![s] = 0]
  /\ LET k == IF connections[s] > 0 THEN destroyedLambda(d) ELSE d IN
       d' = [k EXCEPT !.destroyConnection =
                         IF @ = s THEN NoConnection ELSE @]
  /\ UNCHANGED <<debugBuild, status, assertLine, alive, seat, wire, connected,
                 events, openPlaceholders, oomPosted, unbindRuns, destroyCalls,
                 nullSend, danglingWrite, lastCall>>

\* The seat's state changes (keymap, pressed keys, modifiers, time): at most
\* once in a behaviour, while the binding exists.
SeatChanged ==
  /\ Running /\ alive
  /\ seat = SeatBefore
  /\ seat' = SeatAfter
  /\ UNCHANGED <<debugBuild, status, assertLine, alive, d, connections,
                 surfaceAlive, wire, connected, events, openPlaceholders,
                 oomPosted, unbindRuns, destroyCalls, nullSend,
                 danglingWrite, lastCall>>

\* ---- operations of the binding ------------------------------------------------
\* A Q_ASSERT fails at source line ln (assertions compiled in): qFatal, abort.
AssertFails(ln) ==
  /\ status' = "aborted"
  /\ assertLine' = ln

\* Send with the events put in front of the ones already queued.
Send_prepends(h, out, resourceAssert, pre) ==
  IF h # NULL
  THEN /\ events' = out \o events
       /\ status' = IF pre THEN status ELSE "violated"
       /\ UNCHANGED <<assertLine, nullSend>>
  ELSE IF resourceAssert # 0 /\ debugBuild
       THEN AssertFails(resourceAssert) /\ UNCHANGED <<events, nullSend>>
       ELSE /\ nullSend' = TRUE
            /\ status' \in {"crashed", "undefined"}
            /\ UNCHANGED <<events, assertLine>>

\* The wl_keyboard_send_* calls of a handler that changes nothing else: out is
\* what it sends on handle h, in order; resourceAssert is the line of the
\* Q_ASSERT(resource) that precedes the first send, or 0 when there is none;
\* pre is FALSE when the handler has run past a compiled-out Q_ASSERT whose
\* condition was false.
Send(h, out, resourceAssert, pre) ==
  IF h # NULL
  THEN /\ events' = events \o out
       /\ status' = IF pre THEN status ELSE "violated"
       /\ UNCHANGED <<assertLine, nullSend>>
  ELSE IF resourceAssert # 0 /\ debugBuild
       THEN AssertFails(resourceAssert) /\ UNCHANGED <<events, nullSend>>
       ELSE \* a null wl_resource is handed to the transport
            /\ nullSend' = TRUE
            /\ status' \in {"crashed", "undefined"}
            /\ UNCHANGED <<events, assertLine>>

\* Private::sendModifiers(depressed, latched, locked, group, serial), past its
\* Q_ASSERT.
sendModifiersArgs(h, depressed, latched, locked, group, serial) ==
  <<wl_keyboard_send_modifiers(h, serial, depressed, latched, locked, group)>>

\* sendModifiers() that does not read the seat's last modifiers serial.
sendModifiers_zeroSerial(h) ==
  sendModifiersArgs(h, seat.depressed, seat.latched, seat.locked, seat.group, 0)

\* Private::sendModifiers().
sendModifiers(h) ==
  sendModifiersArgs(h, seat.depressed, seat.latched, seat.locked, seat.group,
                    seat.modSerial)

\* KeyboardInterface::setKeymap.
setKeymap(fd, size) ==
  /\ Running /\ alive
  /\ Len(events) < MaxEvents
  /\ Send(d.resource, sendKeymapFd(d.resource, fd, size), 137, TRUE)
  /\ lastCall' = Call("setKeymap", NULL)
  /\ UNCHANGED <<debugBuild, alive, d, connections, surfaceAlive, seat, wire,
                 connected, openPlaceholders, oomPosted, unbindRuns,
                 destroyCalls, danglingWrite>>

\* focusEvents with the leave sent whether or not a surface is focused.
focusEvents_unguardedLeave(k, surface, serial) ==
  <<wl_keyboard_send_leave(k.resource, serial, k.focusedSurface)>>
  \o
  (IF surface # NULL
   THEN <<wl_keyboard_send_enter(k.resource, serial, surface, seat.pressed),
          wl_keyboard_send_modifiers(k.resource, seat.modSerial, seat.depressed,
                                     seat.latched, seat.locked, seat.group)>>
   ELSE <<>>)

\* focusEvents with the leave sent after the enter and the modifiers.
focusEvents_leaveLast(k, surface, serial) ==
  (IF surface # NULL
   THEN <<wl_keyboard_send_enter(k.resource, serial, surface, seat.pressed),
          wl_keyboard_send_modifiers(k.resource, seat.modSerial, seat.depressed,
                                     seat.latched, seat.locked, seat.group)>>
   ELSE <<>>)
  \o
  (IF k.focusedSurface # NULL
   THEN <<wl_keyboard_send_leave(k.resource, serial, k.focusedSurface)>>
   ELSE <<>>)

\* setFocusedSurface, lines 154-157 and 175-178: what it sends, in order, k
\* being the Private when it is called.
focusEvents(k, surface, serial) ==
  (IF k.focusedSurface # NULL
   THEN <<wl_keyboard_send_leave(k.resource, serial, k.focusedSurface)>>
   ELSE <<>>)
  \o
  (IF surface # NULL
   THEN <<wl_keyboard_send_enter(k.resource, serial, surface, seat.pressed)>>
        \o sendModifiers(k.resource)
   ELSE <<>>)

\* setFocusedSurface, lines 154-166: the Private when it returns.
focusPrivate(k, surface) ==
  LET disconnected == IF k.focusedSurface # NULL
                      THEN NoConnection        \* disconnect(d->destroyConnection)
                      ELSE k.destroyConnection
  IN  [k EXCEPT !.focusedSurface = surface,
                !.destroyConnection = IF surface # NULL THEN surface
                                      ELSE disconnected]

\* setFocusedSurface, lines 154-166: what the call has sent when connect has
\* returned (line 166), before the keys are collected and the enter is sent.
focusEventsAtConnect(k, surface, serial) ==
  IF k.focusedSurface # NULL
  THEN <<wl_keyboard_send_leave(k.resource, serial, k.focusedSurface)>>
  ELSE <<>>

\* focusConnections without the disconnect of the previous connection.
focusConnections_noDisconnect(k, surface) ==
  IF surface # NULL
  THEN [connections EXCEPT ![surface] = @ + 1]
  ELSE connections

\* focusConnections with the disconnect skipped when the focus is cleared.
focusConnections_keepsOnClear(k, surface) ==
  IF surface # NULL
  THEN [(IF k.focusedSurface # NULL /\ k.destroyConnection # NoConnection
         THEN [connections EXCEPT ![k.destroyConnection] = @ - 1]
         ELSE connections) EXCEPT ![surface] = @ + 1]
  ELSE connections

\* setFocusedSurface, lines 156 and 162: the surfaces' connections when it
\* returns.
focusConnections(k, surface) ==
  LET disconnected ==
        IF k.focusedSurface # NULL /\ k.destroyConnection # NoConnection
        THEN [connections EXCEPT ![k.destroyConnection] = @ - 1]
        ELSE connections
  IN  IF surface # NULL
      THEN [disconnected EXCEPT ![surface] = @ + 1]
      ELSE disconnected

\* KeyboardInterface::setFocusedSurface. surface is null or a surface that
\* exists.
setFocusedSurface(surface, serial) ==
  /\ Running /\ alive
  /\ Len(events) < MaxEvents
  /\ surface # NULL => surfaceAlive[surface]
  /\ LET out == focusEvents(d, surface, serial) IN
       \/ /\ d.resource # NULL \/ out = <<>>
          /\ events' = events \o out
          /\ d' = focusPrivate(d, surface)
          /\ connections' = focusConnections(d, surface)
          /\ UNCHANGED <<status, assertLine, nullSend>>
       \/ \* a null wl_resource is handed to the transport, and the process
          \* dies there
          /\ d.resource = NULL /\ out # <<>>
          /\ nullSend' = TRUE
          /\ status' = "crashed"
          /\ UNCHANGED <<events, d, connections, assertLine>>
       \/ \* ... or the sends return; Q_ASSERT(resource) of sendModifiers
          \* (line 143) is reached when surface is not null
          /\ d.resource = NULL /\ out # <<>>
          /\ nullSend' = TRUE
          /\ d' = focusPrivate(d, surface)
          /\ connections' = focusConnections(d, surface)
          /\ IF surface # NULL /\ debugBuild
             THEN AssertFails(143)
             ELSE status' = "undefined" /\ UNCHANGED assertLine
          /\ UNCHANGED events
  /\ lastCall' = Call("setFocusedSurface", surface)
  /\ UNCHANGED <<debugBuild, alive, surfaceAlive, seat, wire, connected,
                 openPlaceholders, oomPosted, unbindRuns, destroyCalls,
                 danglingWrite>>

\* keyPressed and keyReleased without their Q_ASSERT.
sendKey_unchecked(op, focusAssert, key, serial, state) ==
  /\ Running /\ alive
  /\ Len(events) < MaxEvents
  /\ Send(d.resource,
          <<wl_keyboard_send_key(d.resource, serial, seat.timestamp, key, state)>>,
          0, TRUE)
  /\ lastCall' = Call(op, NULL)
  /\ UNCHANGED <<debugBuild, alive, d, connections, surfaceAlive, seat, wire,
                 connected, openPlaceholders, oomPosted, unbindRuns,
                 destroyCalls, danglingWrite>>

\* keyPressed and keyReleased: Q_ASSERT(d->focusedSurface) at line focusAssert,
\* then wl_keyboard_send_key with state.
sendKey(op, focusAssert, key, serial, state) ==
  /\ Running /\ alive
  /\ Len(events) < MaxEvents
  /\ IF d.focusedSurface = NULL /\ debugBuild
     THEN AssertFails(focusAssert) /\ UNCHANGED <<events, nullSend>>
     ELSE Send(d.resource,
               <<wl_keyboard_send_key(d.resource, serial, seat.timestamp, key, state)>>,
               0, d.focusedSurface # NULL)
  /\ lastCall' = Call(op, NULL)
  /\ UNCHANGED <<debugBuild, alive, d, connections, surfaceAlive, seat, wire,
                 connected, openPlaceholders, oomPosted, unbindRuns,
                 destroyCalls, danglingWrite>>

\* KeyboardInterface::keyPressed.
keyPressed(key, serial) ==
  sendKey("keyPressed", 183, key, serial, KEY_STATE_PRESSED)

\* KeyboardInterface::keyReleased.
keyReleased(key, serial) ==
  sendKey("keyReleased", 189, key, serial, KEY_STATE_RELEASED)

\* KeyboardInterface::updateModifiers.
updateModifiers(depressed, latched, locked, group, serial) ==
  /\ Running /\ alive
  /\ Len(events) < MaxEvents
  /\ IF d.focusedSurface = NULL /\ debugBuild
     THEN AssertFails(195) /\ UNCHANGED <<events, nullSend>>
     ELSE Send(d.resource,
               sendModifiersArgs(d.resource, depressed, latched, locked, group, serial),
               143, d.focusedSurface # NULL)
  /\ lastCall' = Call("updateModifiers", NULL)
  /\ UNCHANGED <<debugBuild, alive, d, connections, surfaceAlive, seat, wire,
                 connected, openPlaceholders, oomPosted, unbindRuns,
                 destroyCalls, danglingWrite>>

Next ==
  \/ \E k \in wl_resource_create : createInterfae(k)
  \/ \E h \in Handles : releaseCallback(h)
  \/ ClientDisconnect
  \/ Destructor
  \/ \E a \in KeymapArgs : setKeymap(a[1], a[2])
  \/ \E surface \in Surfaces \cup {NULL}, serial \in Serials :
       setFocusedSurface(surface, serial)
  \/ \E key \in Keys, serial \in Serials : keyPressed(key, serial)
  \/ \E key \in Keys, serial \in Serials : keyReleased(key, serial)
  \/ \E m \in ModifierArgs, serial \in Serials :
       updateModifiers(m[1], m[2], m[3], m[4], serial)
  \/ \E s \in Surfaces : SurfaceDestroyed(s)
  \/ SeatChanged

Spec == Init /\ [][Next]_vars

\* ---- properties ------------------------------------------------------------------
IsLeave(e, s) == e.kind = "leave" /\ e.surf = s
IsEnter(e, s) == e.kind = "enter" /\ e.surf = s
\* The positions a step adds to the log.
Added == (Len(events) + 1)..Len(events')

\* Every leave(S) in the log follows an enter(S) with no other leave(S) in
\* between: a focus period of S, which its enter starts, has at most one leave.
LeaveOncePerPeriod ==
  \A i \in 1..Len(events) :
    events[i].kind = "leave" =>
      \E j \in 1..(i - 1) :
        /\ IsEnter(events[j], events[i].surf)
        /\ \A m \in (j + 1)..(i - 1) : ~IsLeave(events[m], events[i].surf)

\* A step that moves the focus of a bound binding from S to another surface T
\* adds leave(S) and enter(T) to the log, the leave before every enter.
LeaveBeforeEnter ==
  LET S == d.focusedSurface
      T == d'.focusedSurface
  IN  (d.resource # NULL /\ S # NULL /\ T # NULL /\ T # S) =>
        \E i \in Added, j \in Added :
          /\ IsLeave(events'[i], S)
          /\ IsEnter(events'[j], T)
          /\ \A m \in Added : events'[m].kind = "enter" => i < m

KeymapOnCreate ==
  \A k \in Handles :
    (wire[k] = "free" /\ wire'[k] = "live") =>
      /\ \A i \in 1..Len(events) : events[i].h # k
      /\ Len(events') = Len(events) + 1
      /\ SubSeq(events', 1, Len(events)) = events
      /\ LET e == events'[Len(events')] IN
           /\ e.kind = "keymap" /\ e.h = k
           /\ e.args = IF seat.compat
                       THEN <<FORMAT_XKB_V1, seat.fd, seat.size>>
                       ELSE <<FORMAT_NO_KEYMAP, NullFd, 0>>
      /\ openPlaceholders' = 0

\* C2: a successful create emits exactly one keymap event on the new handle,
\* matching the seat's keymap format at the time of the call: (XKB_V1, the
\* seat's fd, the seat's size) when compatible, else (NO_KEYMAP, the placeholder
\* descriptor, 0); no placeholder descriptor is open once create has returned.
C2_KeymapOnCreate ==
  [](openPlaceholders = 0) /\ [][KeymapOnCreate]_vars

\* create has just returned on a seat without a compatible keymap.
C2_Witness ==
  /\ lastCall.op = "create" /\ d.resource # NULL /\ ~seat.compat
  /\ events[Len(events)].args[1] = FORMAT_NO_KEYMAP
  /\ events[Len(events)].h = d.resource
  /\ openPlaceholders = 0

\* A call of keyPressed, keyReleased or updateModifiers.
IsInputCall ==
  \/ \E key \in Keys, serial \in Serials : keyPressed(key, serial)
  \/ \E key \in Keys, serial \in Serials : keyReleased(key, serial)
  \/ \E m \in ModifierArgs, serial \in Serials :
       updateModifiers(m[1], m[2], m[3], m[4], serial)

SilentDestruction ==
  \A s \in Surfaces :
    /\ (surfaceAlive[s] /\ ~surfaceAlive'[s] /\ d.focusedSurface = s)
         => (d'.focusedSurface = NULL /\ events' = events)
    /\ ~surfaceAlive[s] => \A i \in Added : ~IsLeave(events'[i], s)

\* C4: after the focused surface is destroyed by its owner, focusedSurface()
\* returns null, and no leave naming that surface is emitted, at the destruction
\* or by any later setFocusedSurface call.
C4_SilentDestruction ==
  /\ [](\A s \in Surfaces : (alive /\ ~surfaceAlive[s]) => d.focusedSurface # s)
  /\ [][SilentDestruction]_vars

\* Surface 1 was focused and destroyed, and surface 2 was focused afterwards:
\* the log holds no leave for surface 1.
C4_Witness ==
  /\ alive /\ ~surfaceAlive[1] /\ d.focusedSurface = 2
  /\ \E i, j \in 1..Len(events) :
       i < j /\ IsEnter(events[i], 1) /\ IsEnter(events[j], 2)
  /\ \A i \in 1..Len(events) : ~IsLeave(events[i], 1)

\* The destructor of a binding that holds handle h makes the one
\* wl_resource_destroy call there ever is for h; once the binding is gone,
\* unbind does not run for a handle the binding destroyed.
OwnerTeardown ==
  /\ (alive /\ ~alive' /\ d.resource # NULL) =>
       /\ destroyCalls[d.resource] = 0
       /\ destroyCalls' = [destroyCalls EXCEPT ![d.resource] = 1]
  /\ ~alive => \A h \in Handles :
                 destroyCalls[h] > 0 => unbindRuns'[h] = unbindRuns[h]

\* C5: a binding destroyed by its owner while it holds a handle makes exactly
\* one destroyObject call for that handle, and the unbind callback does not fire
\* for that handle after the binding has been destroyed.
C5_OwnerTeardown ==
  /\ [](\A h \in Handles : destroyCalls[h] <= 1)
  /\ [][OwnerTeardown]_vars

\* The binding was destroyed holding a handle, and the client disconnected
\* afterwards: unbind ran for the handle once, inside wl_resource_destroy.
C5_Witness ==
  /\ ~alive /\ ~connected
  /\ \E h \in Handles : destroyCalls[h] = 1 /\ unbindRuns[h] = 1

\* C6 as stated: once the binding has been destroyed, the transport holds no
\* live wire object whose implementation is that binding (every wire object of
\* the model has the one binding as its implementation).
C6_NoDanglingImplementation ==
  ~alive => \A h \in Handles : wire[h] # "live"

\* C7 as stated: the body of the unbind handler runs at most once for one wire
\* object.
C7_UnbindOnce ==
  \A h \in Handles : unbindRuns[h] <= 1

\* C8 as stated: when unbind has run on a binding that still exists, resource()
\* is null, the binding has made no destroyObject call for the handle, and no
\* connection of the binding to a surface's destroyed() signal is left.
C8_UnbindCleansUp ==
  [][\A h \in Handles :
       (unbindRuns'[h] > unbindRuns[h] /\ alive') =>
         /\ d'.resource = NULL
         /\ destroyCalls'[h] = 0
         /\ \A s \in Surfaces : connections'[s] = 0]_vars

\* C9: when the transport cannot allocate the handle, create posts
\* out-of-memory once, emits nothing, and leaves the binding as it was: the handle
\* reference (null on an unbound binding), the focus reference, the
\* connections and the wire objects are unchanged.
C9_AllocationFailure ==
  [][createInterfae(NULL) =>
       /\ oomPosted' = oomPosted + 1
       /\ events' = events
       /\ d' = d
       /\ d.resource = NULL => d'.resource = NULL
       /\ connections' = connections /\ wire' = wire
       /\ status' = status /\ openPlaceholders' = openPlaceholders]_vars

\* A create has failed on a binding that never had a handle: out-of-memory was
\* posted once, nothing was emitted, and the binding is still unbound.
C9_Witness ==
  /\ lastCall.op = "create_nomem" /\ oomPosted = 1
  /\ d.resource = NULL /\ events = <<>>
  /\ \A h \in Handles : wire[h] = "free"

\* C10: setFocusedSurface(null, serial) called when no surface is focused emits
\* no event and leaves the handle, the focus reference and the connection
\* unchanged, so that any number of such calls in a row leave the state the
\* first one left.
C10_ClearFocusIdempotent ==
  [][(d.focusedSurface = NULL
        /\ \E serial \in Serials : setFocusedSurface(NULL, serial))
       => /\ events' = events
          /\ d' = d
          /\ connections' = connections
          /\ status' = status /\ nullSend' = nullSend]_vars

\* setFocusedSurface(null) was the last call, on a bound binding that never
\* had a focused surface.
C10_Witness ==
  /\ lastCall = Call("setFocusedSurface", NULL)
  /\ d.resource # NULL /\ d.focusedSurface = NULL
  /\ \A i \in 1..Len(events) : events[i].kind \notin {"enter", "leave"}
  /\ status = "running" /\ ~nullSend

\* What a call setFocusedSurface(surface, serial) on a bound binding is to add
\* to the log: the leave for the surface focused before, if any, then, for a
\* surface that is not null, the enter with the seat's pressed keys and one
\* modifiers event with the seat's modifier state and last modifiers serial.
FocusContract ==
  \A surface \in Surfaces \cup {NULL}, serial \in Serials :
    (d.resource # NULL /\ setFocusedSurface(surface, serial)) =>
      events' = events
        \o (IF d.focusedSurface # NULL
            THEN <<Event("leave", d.resource, serial, d.focusedSurface, <<>>, <<>>)>>
            ELSE <<>>)
        \o (IF surface # NULL
            THEN <<Event("enter", d.resource, serial, surface, seat.pressed, <<>>),
                   Event("modifiers", d.resource, seat.modSerial, NULL, <<>>,
                         <<seat.depressed, seat.latched, seat.locked, seat.group>>)>>
            ELSE <<>>)

\* C11: each call setFocusedSurface(T, n) with T not null on a bound binding
\* emits exactly leave(n, previous surface) if and only if a surface was focused,
\* then enter(n, T, the seat's pressed keys in the seat's order), then one
\* modifiers event with the seat's depressed, latched, locked and group values
\* and the seat's last modifiers serial; a call with T null emits only the leave,
\* if a surface was focused.
C11_FocusEventSequence == [][FocusContract]_vars

\* The focus has just moved from surface 1 to surface 2 on a bound binding while
\* keys were held: the log ends with leave(1), enter(2, the held keys) and the
\* modifiers event.
C11_Witness ==
  /\ lastCall = Call("setFocusedSurface", 2) /\ status = "running"
  /\ Len(events) >= 3
  /\ LET n == Len(events) IN
       /\ IsLeave(events[n - 2], 1)
       /\ IsEnter(events[n - 1], 2) /\ events[n - 1].keys = <<30, 31>>
       /\ events[n - 1].serial = events[n - 2].serial
       /\ events[n].kind = "modifiers" /\ events[n].serial = seat.modSerial

\* C12 as stated: at any time at most one live wire object has the binding as
\* its implementation (every wire object of the model has the one binding as its
\* implementation).
C12_OneWireObject ==
  Cardinality({h \in Handles : wire[h] = "live"}) <= 1

\* The binding calls wl_resource_destroy only for a handle it has not destroyed
\* before and whose unbind has not run.
DestroyOnlyStillBound ==
  \A h \in Handles :
    destroyCalls'[h] > destroyCalls[h] =>
      /\ destroyCalls[h] = 0 /\ destroyCalls'[h] = 1
      /\ unbindRuns[h] = 0
      /\ d.resource = h

\* C13: in every sequence of unbind and destruction of the binding, the binding
\* calls destroyObject on a handle at most once, and never for a handle whose
\* unbind has already fired: the destructor destroys the wire object only if the
\* stored handle is still not null.
C13_OneTeardownPath ==
  /\ [](\A h \in Handles : destroyCalls[h] <= 1 /\ (alive => destroyCalls[h] = 0))
  /\ [][DestroyOnlyStillBound]_vars

\* The client released the handle, unbind ran, and the binding was destroyed
\* afterwards: the destructor made no wl_resource_destroy call.
C13_Witness ==
  /\ ~alive /\ lastCall.op = "delete" /\ d.resource = NULL
  /\ \E h \in Handles : unbindRuns[h] = 1 /\ wire[h] = "live"
  /\ \A h \in Handles : destroyCalls[h] = 0

\* C14 as stated: between the calls of a running binding, no surface is focused
\* while the handle is null.
C14_NoFocusWhileUnbound ==
  (status = "running" /\ alive /\ d.focusedSurface # NULL) => d.resource # NULL

\* C15 as stated: within setFocusedSurface(T, n) with T not null on a bound
\* binding, when the connection to T's destroyed() signal is in place (line 166)
\* the enter(n, T) of this call has already been sent.
C15_SubscribeAfterEnter ==
  [][\A surface \in Surfaces, serial \in Serials :
       (d.resource # NULL /\ setFocusedSurface(surface, serial)) =>
         LET subscribed == focusConnections(d, surface)
             sent == events \o focusEventsAtConnect(d, surface, serial)
         IN  subscribed[surface] > 0 =>
               \E i \in 1..Len(sent) :
                 IsEnter(sent[i], surface) /\ sent[i].serial = serial]_vars

\* Every event on a handle that is not a keymap event follows a keymap event on
\* that handle.
KeymapFirst ==
  \A i \in 1..Len(events) :
    events[i].kind # "keymap" =>
      \E j \in 1..(i - 1) : events[j].kind = "keymap" /\ events[j].h = events[i].h

\* The events that carry the serial of the call that sent them appear in the
\* order of the calls (a later call has a larger serial).
CallOrder ==
  \A i, j \in 1..Len(events) :
    (i < j /\ events[i].kind \in {"leave", "enter", "key"}
           /\ events[j].kind \in {"leave", "enter", "key"})
      => events[i].serial <= events[j].serial

\* C16: the events on a handle appear in the order of the operations that
\* produced them, and the keymap event sent by create is the first event on the
\* handle: no enter, leave, key or modifiers event is emitted on a handle before
\* that handle's keymap event.
C16_EventOrder ==
  /\ [](KeymapFirst /\ CallOrder)
  /\ [][Len(events') >= Len(events)
        /\ SubSeq(events', 1, Len(events)) = events]_vars

\* A key event was sent after the enter of an earlier call, both after the
\* keymap event of create, all on the same handle.
C16_Witness ==
  /\ lastCall.op = "keyPressed" /\ Len(events) >= 4
  /\ events[1].kind = "keymap"
  /\ \E i, j \in 2..Len(events) :
       /\ i < j /\ events[i].kind = "enter" /\ events[j].kind = "key"
       /\ events[i].serial < events[j].serial
       /\ events[i].h = events[1].h /\ events[j].h = events[1].h

\* What keyPressed, keyReleased and updateModifiers called while a surface is
\* focused are to do: add one event, and nothing else.
InputFrame ==
  /\ \A key \in Keys, serial \in Serials :
       /\ (d.focusedSurface # NULL /\ keyPressed(key, serial)) =>
            events' = events \o
              <<Event("key", d.resource, serial, NULL, <<>>,
                      <<seat.timestamp, key, KEY_STATE_PRESSED>>)>>
       /\ (d.focusedSurface # NULL /\ keyReleased(key, serial)) =>
            events' = events \o
              <<Event("key", d.resource, serial, NULL, <<>>,
                      <<seat.timestamp, key, KEY_STATE_RELEASED>>)>>
  /\ \A m \in ModifierArgs, serial \in Serials :
       (d.focusedSurface # NULL /\ updateModifiers(m[1], m[2], m[3], m[4], serial)) =>
         events' = events \o
           <<Event("modifiers", d.resource, serial, NULL, <<>>,
                   <<m[1], m[2], m[3], m[4]>>)>>
  /\ (d.focusedSurface # NULL /\ IsInputCall) =>
       d' = d /\ connections' = connections

\* C17 as stated: keyPressed(k, s) and keyReleased(k, s) called while a surface
\* is focused each emit exactly one key event with serial s, the seat's
\* timestamp, key k and the state PRESSED respectively RELEASED, and leave the
\* handle, the focus reference and the connection unchanged; updateModifiers
\* while focused emits exactly one modifiers event with the given values and
\* changes no state of the binding.
C17_InputEventsFrame == [][InputFrame]_vars

\* C18 as stated: no null handle is ever passed to wl_keyboard_send_*.
C18_NoNullSend == ~nullSend

\* C19: between the operations of a binding that exists, a surface's
\* destroyed() signal has a live connection to the binding if and only if that
\* surface is the focused one, and then exactly one: there is a connection if
\* and only if the focus reference is not null, and never more than one, however
\* setFocusedSurface calls (refocusing the focused surface included) and
\* destructions of surfaces interleave.
C19_SubscriptionIffFocus ==
  alive =>
    /\ \A s \in Surfaces :
         connections[s] = IF d.focusedSurface = s THEN 1 ELSE 0
    /\ d.destroyConnection = d.focusedSurface \/ d.focusedSurface = NULL

\* Surface 1 was focused, then focused again while it was focused, and surface
\* 2 was destroyed meanwhile: one connection, on surface 1.
C19_Witness ==
  /\ alive /\ status = "running" /\ d.focusedSurface = 1
  /\ connections[1] = 1 /\ ~surfaceAlive[2]
  /\ \E i, j, m \in 1..Len(events) :
       /\ i < j /\ j < m
       /\ IsEnter(events[i], 1) /\ IsLeave(events[j], 1) /\ IsEnter(events[m], 1)

\* The destruction of a surface that was focused earlier and is not the focused
\* one changes nothing of the binding and adds no event.
StaleSurfaceDestroyed ==
  \A s \in Surfaces :
    (/\ SurfaceDestroyed(s)
     /\ d.focusedSurface # NULL /\ d.focusedSurface # s
     /\ \E i \in 1..Len(events) : IsEnter(events[i], s))
      => /\ d' = d /\ events' = events
         /\ connections' = connections /\ status' = status

\* C20: the destruction of a surface that was focused earlier and has since
\* been replaced by another focused surface leaves the binding unchanged: the
\* focus reference is not cleared, no event is emitted, and the focus reference
\* of a binding that exists never names a destroyed surface.
C20_StaleSurfaceDestroyed ==
  /\ [](alive => (d.focusedSurface = NULL \/ surfaceAlive[d.focusedSurface]))
  /\ [][StaleSurfaceDestroyed]_vars

\* Surface 1 was focused, surface 2 replaced it, and surface 1 was destroyed:
\* surface 2 is still focused and the log ends with the events of its focus.
C20_Witness ==
  /\ alive /\ status = "running" /\ ~surfaceAlive[1] /\ surfaceAlive[2]
  /\ d.focusedSurface = 2 /\ d.resource # NULL /\ connections[2] = 1
  /\ \E i, j \in 1..Len(events) :
       i < j /\ IsLeave(events[i], 1) /\ IsEnter(events[j], 2)
  /\ events[Len(events)].kind = "modifiers"
====
